---- MODULE Spec2Model ----
(***************************************************************************)
(* BeatRX: the music-generation and sequencing core of src/src/App.tsx.    *)
(*                                                                         *)
(* The React component state, the refs and the parts of the Tone.js        *)
(* transport the component drives are the variables; every UI handler,     *)
(* the deferred React render of the updates queued by the generation       *)
(* effect, and the transport's clock are the actions.                      *)
(*                                                                         *)
(* Notes are records [n |-> name, o |-> octave]; note.slice(0, -1) is the  *)
(* field n.  Array positions are 0-based in the source and 1-based here:   *)
(* arr[i] in the source is arr[i + 1] below.  Time is counted in           *)
(* sixteenth notes of the running tempo.                                   *)
(***************************************************************************)
EXTENDS Integers, Sequences, FiniteSets, TLC

----------------------------------------------------------------------------
(* Bounds of the model                                                     *)

\* Math.random() is counted in RandDen-ths: it yields r / RandDen
RandDen == 4
\* the number of values of Math.random() the component as a whole is run with
NRand == 1
\* independent random draws per generated loop melody (the draws repeat cyclically)
MelodyDraws == 1

----------------------------------------------------------------------------
(* Music theory tables and helpers                                         *)

Steps == 16

NumRows == 8

PitchNames == <<"C", "C#", "D", "D#", "E", "F", "F#", "G", "G#", "A", "A#", "B">>

\* pitch class of a note name as Tone.Midi parses it
PitchClass(name) ==
    CASE name = "C" -> 0
      [] name = "C#" -> 1  [] name = "Db" -> 1
      [] name = "D" -> 2
      [] name = "D#" -> 3  [] name = "Eb" -> 3
      [] name = "E" -> 4
      [] name = "F" -> 5
      [] name = "F#" -> 6  [] name = "Gb" -> 6
      [] name = "G" -> 7
      [] name = "G#" -> 8  [] name = "Ab" -> 8
      [] name = "A" -> 9
      [] name = "A#" -> 10 [] name = "Bb" -> 10
      [] name = "B" -> 11

Note(name, octave) == [n |-> name, o |-> octave]

\* Tone.Midi(note).toMidi(): C4 is 60
noteToMidi(note) == (note.o + 1) * 12 + PitchClass(note.n)

\* Tone.Midi(midi).toNote(): always the sharp spelling
midiToNote(midi) == Note(PitchNames[(midi % 12) + 1], (midi \div 12) - 1)

\* a variant that gives every chord type the major triad
ChordIntervalsAllMajor(type) == <<0, 4, 7>>

ChordIntervals(type) ==
    CASE type = "major" -> <<0, 4, 7>>
      [] type = "minor" -> <<0, 3, 7>>
      [] type = "dominant7" -> <<0, 4, 7, 10>>
      [] OTHER -> <<0, 4, 7>>

\* a variant that keeps every tone in the octave of the root
getChordNotesWrapped(rootMidi, type) ==
    [i \in 1..Len(ChordIntervals(type)) |->
        midiToNote((rootMidi - (rootMidi % 12)) + ((rootMidi + ChordIntervals(type)[i]) % 12))]

getChordNotes(rootMidi, type) ==
    [i \in 1..Len(ChordIntervals(type)) |-> midiToNote(rootMidi + ChordIntervals(type)[i])]

ROOT_NOTES == <<"C", "D", "E", "G", "A", "B">>

ScaleTypes == <<"major", "minor", "harmonic_minor">>

\* a key name `${root}_${mode}` is the pair of its parts
KeyName(root, mode) == <<root, mode>>

ALL_KEYS == {KeyName(ROOT_NOTES[i], ScaleTypes[j]) : i \in 1..6, j \in 1..3}

\* the property names of the SCALES table
ScaleKeys ==
    {<<"C", "major">>, <<"G", "major">>, <<"D", "major">>,
     <<"E", "major">>, <<"A", "major">>, <<"B", "major">>,
     <<"C", "minor">>, <<"G", "minor">>, <<"D", "minor">>,
     <<"E", "minor">>, <<"A", "minor">>, <<"B", "minor">>,
     <<"C", "harmonic_minor">>, <<"G", "harmonic_minor">>, <<"D", "harmonic_minor">>,
     <<"E", "harmonic_minor">>, <<"A", "harmonic_minor">>, <<"B", "harmonic_minor">>}

\* the property names of the CHORD_PROGRESSIONS_DEFINITIONS table
ProgressionKeys ==
    {<<"C", "major">>, <<"G", "major">>, <<"D", "major">>,
     <<"E", "major">>, <<"A", "major">>, <<"B", "major">>,
     <<"C", "minor">>, <<"G", "minor">>, <<"D", "minor">>,
     <<"E", "minor">>, <<"A", "minor">>, <<"B", "minor">>,
     <<"C", "harmonic_minor">>, <<"G", "harmonic_minor">>, <<"D", "harmonic_minor">>,
     <<"E", "harmonic_minor">>, <<"A", "harmonic_minor">>, <<"B", "harmonic_minor">>}

\* a variant that gives every key the scale of C major
SCALESOfCMajor(key) == <<"C", "D", "E", "F", "G", "A", "B">>

SCALES(key) ==
    CASE key = <<"C", "major">> -> <<"C", "D", "E", "F", "G", "A", "B">>
      [] key = <<"G", "major">> -> <<"G", "A", "B", "C", "D", "E", "F#">>
      [] key = <<"D", "major">> -> <<"D", "E", "F#", "G", "A", "B", "C#">>
      [] key = <<"E", "major">> -> <<"E", "F#", "G#", "A", "B", "C#", "D#">>
      [] key = <<"A", "major">> -> <<"A", "B", "C#", "D", "E", "F#", "G#">>
      [] key = <<"B", "major">> -> <<"B", "C#", "D#", "E", "F#", "G#", "A#">>
      [] key = <<"C", "minor">> -> <<"C", "D", "Eb", "F", "G", "Ab", "Bb">>
      [] key = <<"G", "minor">> -> <<"G", "A", "Bb", "C", "D", "Eb", "F">>
      [] key = <<"D", "minor">> -> <<"D", "E", "F", "G", "A", "Bb", "C">>
      [] key = <<"E", "minor">> -> <<"E", "F#", "G", "A", "B", "C", "D">>
      [] key = <<"A", "minor">> -> <<"A", "B", "C", "D", "E", "F", "G">>
      [] key = <<"B", "minor">> -> <<"B", "C#", "D", "E", "F#", "G", "A">>
      [] key = <<"C", "harmonic_minor">> -> <<"C", "D", "Eb", "F", "G", "Ab", "B">>
      [] key = <<"G", "harmonic_minor">> -> <<"G", "A", "Bb", "C", "D", "Eb", "F#">>
      [] key = <<"D", "harmonic_minor">> -> <<"D", "E", "F", "G", "A", "Bb", "C#">>
      [] key = <<"E", "harmonic_minor">> -> <<"E", "F#", "G", "A", "B", "C", "D#">>
      [] key = <<"A", "harmonic_minor">> -> <<"A", "B", "C", "D", "E", "F", "G#">>
      [] key = <<"B", "harmonic_minor">> -> <<"B", "C#", "D", "E", "F#", "G", "A#">>

\* every major key has the same four degrees, and so has every minor key
CHORD_PROGRESSIONS_DEFINITIONS(key) ==
    IF key[2] = "major"
    THEN << [rootOffset |-> 0, type |-> "major"], [rootOffset |-> 5, type |-> "major"],
            [rootOffset |-> 7, type |-> "dominant7"], [rootOffset |-> 0, type |-> "major"] >>
    ELSE << [rootOffset |-> 0, type |-> "minor"], [rootOffset |-> 5, type |-> "minor"],
            [rootOffset |-> 7, type |-> "dominant7"], [rootOffset |-> 0, type |-> "minor"] >>

\* the values of Math.random() a function on its own is applied to
Draws == 0..(RandDen - 1)

\* the values of Math.random() the component as a whole is run with
Rand == {k * (RandDen \div NRand) : k \in 0..(NRand - 1)}

\* floor(Math.random() * len) for Math.random() = r / RandDen
RandIndex(r, len) == (r * len) \div RandDen

\* a variant that moves to the next chord on every step
ChordIndexPerStep(step, len) == step % len

\* the index of the chord that is active at a step
ChordIndex(step, len) == (step \div 4) % len

\* every scale note in every octave of the range, octave by octave
AllPossibleNotes(scale, omin, omax) ==
    [k \in 1..(Len(scale) * (omax - omin + 1)) |->
        Note(scale[((k - 1) % Len(scale)) + 1], omin + ((k - 1) \div Len(scale)))]

\* the candidates whose name string equals the name string of a chord note
HarmonicallyCompatibleNotes(scale, chord, omin, omax) ==
    LET Compatible(note) == \E i \in 1..Len(chord) : note.n = chord[i].n
    IN SelectSeq(AllPossibleNotes(scale, omin, omax), Compatible)

\* a variant without the fallback: no note when no candidate is compatible
generateCompatibleNoteOnly(scale, chord, omin, omax, r) ==
    LET compat == HarmonicallyCompatibleNotes(scale, chord, omin, omax)
    IN IF Len(compat) > 0
       THEN compat[RandIndex(r, Len(compat)) + 1]
       ELSE [n |-> "null", o |-> 0]

generateConsistentMelodyNote(scale, chord, omin, omax, r) ==
    LET all == AllPossibleNotes(scale, omin, omax)
        compat == HarmonicallyCompatibleNotes(scale, chord, omin, omax)
    IN IF Len(compat) > 0
       THEN compat[RandIndex(r, Len(compat)) + 1]
       ELSE all[RandIndex(r, Len(all)) + 1]

\* the progression of a key: every degree re-voiced in octave 3
ResolveProgression(key) ==
    LET rootMidiForProgression == noteToMidi(Note(SCALES(key)[1], 3))
        def == CHORD_PROGRESSIONS_DEFINITIONS(key)
    IN [i \in 1..Len(def) |->
          LET rootNoteForChord == midiToNote(rootMidiForProgression + def[i].rootOffset)
          IN getChordNotes(noteToMidi(Note(rootNoteForChord.n, 3)), def[i].type)]

\* a variant that draws every note against the first chord
LoopMelodyFirstChord(key, progression, rs) ==
    [k \in 1..Steps |->
        generateConsistentMelodyNote(SCALES(key), progression[1], 4, 5,
                                     rs[((k - 1) % Len(rs)) + 1])]

\* the 16 notes of a loop melody; note i is drawn with rs[i mod Len(rs)]
LoopMelody(key, progression, rs) ==
    [k \in 1..Steps |->
        generateConsistentMelodyNote(SCALES(key),
            progression[ChordIndex(k - 1, Len(progression)) + 1], 4, 5,
            rs[((k - 1) % Len(rs)) + 1])]

----------------------------------------------------------------------------
(* Sound palettes, drum patterns, the manual grid                          *)

soundPalettes == <<"sawtooth", "square", "sine", "triangle", "Chiptune", "Synthwave", "Acid", "FM Bells">>

\* the class of synthRef.current that the palette effect builds
SynthKind(palette) == IF palette = "Acid" THEN "MonoSynth" ELSE "PolySynth"

drumPatterns ==
    << [name |-> "House",
        kick  |-> <<1,0,0,0, 1,0,0,0, 1,0,0,0, 1,0,0,0>>,
        snare |-> <<0,0,0,0, 1,0,0,0, 0,0,0,0, 1,0,0,0>>,
        hihat |-> <<0,0,1,0, 0,0,1,0, 0,0,1,0, 0,0,1,0>>],
       [name |-> "Breakbeat",
        kick  |-> <<1,0,0,1, 0,1,0,0, 1,0,0,1, 0,0,0,0>>,
        snare |-> <<0,0,0,0, 1,0,0,0, 0,0,0,0, 1,0,0,0>>,
        hihat |-> <<1,1,1,1, 1,1,1,1, 1,1,1,1, 1,1,1,1>>],
       [name |-> "Trap",
        kick  |-> <<1,0,0,0, 0,0,0,1, 0,0,1,0, 0,0,0,0>>,
        snare |-> <<0,0,0,0, 1,0,0,0, 0,0,0,0, 1,0,0,0>>,
        hihat |-> <<0,0,1,1, 0,0,1,1, 0,0,1,1, 0,0,1,1>>],
       [name |-> "Minimal",
        kick  |-> <<1,0,0,0, 0,0,0,0, 1,0,0,0, 0,0,0,0>>,
        snare |-> <<0,0,0,0, 0,0,0,0, 0,0,0,0, 1,0,0,0>>,
        hihat |-> <<0,0,0,0, 0,0,1,0, 0,0,0,0, 0,0,1,0>>],
       [name |-> "Synthwave",
        kick  |-> <<1,0,0,0, 1,0,0,0, 1,0,0,0, 1,0,0,0>>,
        snare |-> <<0,0,0,0, 1,0,0,0, 0,0,0,0, 1,0,0,0>>,
        hihat |-> <<1,0,1,0, 1,0,1,0, 1,0,1,0, 1,0,1,0>> ] >>

\* a variant that finds every name at the first pattern
FindPatternIndexFirst(name) == 0

\* drumPatterns.findIndex(p => p.name === name), -1 when there is none
FindPatternIndex(name) ==
    IF \E i \in 1..Len(drumPatterns) : drumPatterns[i].name = name
    THEN (CHOOSE i \in 1..Len(drumPatterns) : drumPatterns[i].name = name) - 1
    ELSE -1

notesForManualSequence ==
    << Note("C", 5), Note("B", 4), Note("A", 4), Note("G", 4),
       Note("F", 4), Note("E", 4), Note("D", 4), Note("C", 4) >>

EmptyGrid == [row \in 1..NumRows |-> [col \in 1..Steps |-> FALSE]]

\* handleManualSequenceToggle: a new matrix with a new copy of the one row
ToggleGrid(prev, noteIndex, stepIndex) ==
    [prev EXCEPT ![noteIndex + 1] =
        [prev[noteIndex + 1] EXCEPT ![stepIndex + 1] = ~prev[noteIndex + 1][stepIndex + 1]]]

\* the matrix as the arrays it is made of: rows holds the row arrays ever
\* allocated, mats the matrix arrays, each a sequence of references to rows
HeapOf(grid) == [rows |-> grid, mats |-> <<[i \in 1..Len(grid) |-> i]>>]

\* the cells that are reached from a matrix array
Deref(heap, mat) == [i \in 1..Len(heap.mats[mat]) |-> heap.rows[heap.mats[mat][i]]]

\* [...newSequence[noteIndex]] throws a TypeError when there is no such row
ToggleThrows(heap, mat, noteIndex) == (noteIndex + 1) \notin DOMAIN heap.mats[mat]

\* a variant that sets the cell instead of negating it
AssignCellSetOnly(row, stepIndex) ==
    IF (stepIndex + 1) \in DOMAIN row THEN [row EXCEPT ![stepIndex + 1] = TRUE] ELSE row

\* newSequence[noteIndex][stepIndex] = !newSequence[noteIndex][stepIndex] on the
\* copy of the row: a cell of the row is negated; an index past the end
\* lengthens the array, with !undefined = true in the new cell and holes,
\* which read as falsy, before it; a negative index is not a cell
AssignCell(row, stepIndex) ==
    IF (stepIndex + 1) \in DOMAIN row
    THEN [row EXCEPT ![stepIndex + 1] = ~row[stepIndex + 1]]
    ELSE IF stepIndex >= Len(row)
         THEN [c \in 1..(stepIndex + 1) |->
                  IF c \in DOMAIN row THEN row[c] ELSE c = stepIndex + 1]
         ELSE row

\* a variant that negates the cell in the row it was given
ToggleHeapInPlace(heap, mat, noteIndex, stepIndex) ==
    LET rowRef == heap.mats[mat][noteIndex + 1]
    IN [heap |-> [rows |-> [heap.rows EXCEPT ![rowRef] = AssignCell(heap.rows[rowRef], stepIndex)],
                  mats |-> Append(heap.mats, heap.mats[mat])],
        mat |-> Len(heap.mats) + 1]

\* the updater of handleManualSequenceToggle on the arrays: a new matrix array
\* that refers to the rows of the old one, but to a new copy of the one row,
\* in which the cell is assigned
ToggleHeap(heap, mat, noteIndex, stepIndex) ==
    LET rowRef == heap.mats[mat][noteIndex + 1]
        newRowRef == Len(heap.rows) + 1
    IN [heap |-> [rows |-> Append(heap.rows, AssignCell(heap.rows[rowRef], stepIndex)),
                  mats |-> Append(heap.mats, [heap.mats[mat] EXCEPT ![noteIndex + 1] = newRowRef])],
        mat |-> Len(heap.mats) + 1]

----------------------------------------------------------------------------
(* The clock callback of setupSequence                                     *)

\* null as a melody note
NoNote == Note("null", 0)

Event(voice, op, notes, dur, at) ==
    [v |-> voice, op |-> op, notes |-> notes, dur |-> dur, at |-> at]

\* the values the callback closes over
Closure(am, prog, mel, key, pm, pal, arp, grid, pat) ==
    [activeMode |-> am, progression |-> prog, melody |-> mel, randomKey |-> key,
     playbackMode |-> pm, soundPalette |-> pal, isArpeggiatorOn |-> arp,
     manualSequence |-> grid, pattern |-> pat]

\* the branch the callback takes
RandomBranch(cb) == cb.activeMode = "random" /\ Len(cb.progression) > 0

ManualBranch(cb) == ~RandomBranch(cb) /\ cb.activeMode = "manual"

CurrentChord(cb, step) == cb.progression[ChordIndex(step, Len(cb.progression)) + 1]

\* a variant that draws a fresh note on every step, in loop mode too
MelodyNoteFresh(cb, step, r) ==
    generateConsistentMelodyNote(SCALES(cb.randomKey), CurrentChord(cb, step), 4, 5, r)

\* the melody note of a step, NoNote when there is none
MelodyNote(cb, step, r) ==
    IF cb.playbackMode = "loop" /\ Len(cb.melody) > 0
    THEN cb.melody[step + 1]
    ELSE IF cb.playbackMode = "song"
         THEN generateConsistentMelodyNote(SCALES(cb.randomKey), CurrentChord(cb, step), 4, 5, r)
         ELSE NoNote

\* Chiptune on a PolySynth holds the note until the next step
Sustained(cb, synth) == cb.soundPalette = "Chiptune" /\ synth = "PolySynth"

MelodyEvents(cb, synth, melodyNote, held) ==
    IF Sustained(cb, synth)
    THEN (IF held # NoNote THEN <<Event("melody", "release", <<held>>, "", 0)>> ELSE <<>>)
         \o (IF melodyNote # NoNote
             THEN <<Event("melody", "attack", <<melodyNote>>, "", 0)>> ELSE <<>>)
    ELSE IF melodyNote # NoNote
         THEN <<Event("melody", "attackRelease", <<melodyNote>>, "8n", 0)>>
         ELSE <<>>

\* chiptuneMelodyNoteRef.current after the melody logic
HeldAfter(cb, synth, melodyNote, held) ==
    IF Sustained(cb, synth) THEN melodyNote ELSE held

BassEvents(chord, step) ==
    IF step % 4 = 0
    THEN <<Event("bass", "attackRelease", <<Note(chord[1].n, 2)>>, "2n", 0)>>
    ELSE <<>>

\* noteTime >= Tone.Transport.seconds: the time of the tone on the clock of
\* the audio context against the position of the transport
ArpDispatch(noteTime, transportSeconds) == noteTime >= transportSeconds

\* the forEach over the chord: tone index is due index sixteenths after the
\* time of the step, and is triggered when the guard passes
ArpTones(chord, time, transportSeconds, sixteenth) ==
    LET tone(i) == IF ArpDispatch(time + sixteenth * (i - 1), transportSeconds)
                   THEN <<[note |-> chord[i], at |-> time + sixteenth * (i - 1)]>>
                   ELSE <<>>
        RECURSIVE upTo(_)
        upTo(i) == IF i = 0 THEN <<>> ELSE upTo(i - 1) \o tone(i)
    IN upTo(Len(chord))

\* the arpeggio of a clock step; the program model counts time in sixteenths
\* from the time of the step, which the position of the transport never exceeds
ArpEvents(chord) ==
    LET tones == ArpTones(chord, 0, 0, 1)
    IN [k \in 1..Len(tones) |->
          Event("chord", "attackRelease", <<tones[k].note>>, "16n", tones[k].at)]

\* a variant that triggers the chord on every beat
ChordEventsEveryBeat(cb, synth, chord, step) ==
    IF step % 4 = 0
    THEN IF synth = "PolySynth"
         THEN <<Event("chord", "attackRelease", chord, "4n", 0)>>
         ELSE <<Event("chord", "attackRelease", <<chord[1]>>, "4n", 0)>>
    ELSE <<>>

ChordEvents(cb, synth, chord, step) ==
    IF step % 8 = 0
    THEN IF cb.isArpeggiatorOn /\ synth = "PolySynth"
         THEN ArpEvents(chord)
         ELSE IF synth = "PolySynth"
              THEN <<Event("chord", "attackRelease", chord, "4n", 0)>>
              ELSE <<Event("chord", "attackRelease", <<chord[1]>>, "4n", 0)>>
    ELSE <<>>

\* a variant that stops at the first flagged row
ManualEventsFirstRow(cb, step) ==
    LET Flagged(i) == cb.manualSequence[i][step + 1]
    IN IF \E i \in 1..NumRows : Flagged(i)
       THEN LET first == CHOOSE i \in 1..NumRows : Flagged(i) /\ \A j \in 1..(i - 1) : ~Flagged(j)
            IN <<Event("manual", "attackRelease", <<notesForManualSequence[first]>>, "8n", 0)>>
       ELSE <<>>

\* one trigger per flagged row of the step's column, top row first
ManualEvents(cb, step) ==
    LET RECURSIVE rows(_)
        rows(i) == IF i = 0 THEN <<>>
                   ELSE rows(i - 1) \o
                        (IF cb.manualSequence[i][step + 1]
                         THEN <<Event("manual", "attackRelease", <<notesForManualSequence[i]>>, "8n", 0)>>
                         ELSE <<>>)
    IN rows(NumRows)

DrumEvents(cb, step) ==
    LET currentPattern == drumPatterns[cb.pattern + 1]
    IN (IF currentPattern.kick[step + 1] = 1
        THEN <<Event("kick", "attackRelease", <<Note("C", 1)>>, "8n", 0)>> ELSE <<>>)
       \o (IF currentPattern.hihat[step + 1] = 1
           THEN <<Event("hihat", "attackRelease", <<>>, "8n", 0)>> ELSE <<>>)
       \o (IF currentPattern.snare[step + 1] = 1
           THEN <<Event("snare", "attackRelease", <<>>, "8n", 0)>> ELSE <<>>)

StepEvent(step) == <<Event("step", "publish", <<>>, "", 0)>>

\* a variant that runs the drum logic before the melodic logic
CallbackEventsDrumsFirst(cb, synth, step, r, held) ==
    StepEvent(step)
    \o DrumEvents(cb, step)
    \o (IF RandomBranch(cb)
        THEN MelodyEvents(cb, synth, MelodyNote(cb, step, r), held)
             \o BassEvents(CurrentChord(cb, step), step)
             \o ChordEvents(cb, synth, CurrentChord(cb, step), step)
        ELSE IF ManualBranch(cb) THEN ManualEvents(cb, step) ELSE <<>>)

\* a variant that returns from the callback when there is no progression
CallbackEventsEarlyReturn(cb, synth, step, r, held) ==
    IF Len(cb.progression) = 0
    THEN StepEvent(step)
    ELSE StepEvent(step)
         \o (IF RandomBranch(cb)
             THEN MelodyEvents(cb, synth, MelodyNote(cb, step, r), held)
                  \o BassEvents(CurrentChord(cb, step), step)
                  \o ChordEvents(cb, synth, CurrentChord(cb, step), step)
             ELSE IF ManualBranch(cb) THEN ManualEvents(cb, step) ELSE <<>>)
         \o DrumEvents(cb, step)

\* everything one invocation of the callback issues, in the order of the code
CallbackEvents(cb, synth, step, r, held) ==
    StepEvent(step)
    \o (IF RandomBranch(cb)
        THEN MelodyEvents(cb, synth, MelodyNote(cb, step, r), held)
             \o BassEvents(CurrentChord(cb, step), step)
             \o ChordEvents(cb, synth, CurrentChord(cb, step), step)
        ELSE IF ManualBranch(cb) THEN ManualEvents(cb, step) ELSE <<>>)
    \o DrumEvents(cb, step)

\* chiptuneMelodyNoteRef.current after one invocation of the callback
CallbackHeld(cb, synth, step, r, held) ==
    IF RandomBranch(cb) THEN HeldAfter(cb, synth, MelodyNote(cb, step, r), held) ELSE held

----------------------------------------------------------------------------
(* State                                                                   *)

VARIABLES
    \* React state of the component
    isPlaying, activeMode, soundPalette, tempo, currentStep, randomKey, playbackMode,
    currentRootKey, currentScaleMode, currentRandomProgression, currentRandomMelody,
    isArpeggiatorOn, currentDrumPatternIndex, manualSequence,
    \* refs
    sequenceRef, chiptuneMelodyNoteRef,
    \* the notes that were attacked on synthRef.current and not released since
    sustained,
    \* Tone.js: the transport, the callbacks it has scheduled, the audio context,
    \* the voice events that were triggered with a time still to come
    transport, registry, audioContext, scheduled,
    \* handlePlayPause calls waiting in `await Tone.start()`
    pendingStarts,
    \* the generation effect has queued setRandomKey/-Progression/-Melody and
    \* React has not rendered them yet
    regenPending,
    \* observation: what the last clock step issued in call order, the queued
    \* events that came due in it, what happened since the last tick
    triggers, fired, sinceTick,
    \* a function of the component applied on its own: its arguments and its value
    call, result

reactState == <<isPlaying, activeMode, soundPalette, tempo, currentStep, randomKey, playbackMode,
                currentRootKey, currentScaleMode, currentRandomProgression, currentRandomMelody,
                isArpeggiatorOn, currentDrumPatternIndex, manualSequence>>

vars == <<reactState, sequenceRef, chiptuneMelodyNoteRef, sustained, call, result, transport, registry, audioContext,
          scheduled, pendingStarts, regenPending, triggers, fired, sinceTick>>

\* the inputs the controls offer within the bounds
RootInputs == {"random", "C"}

ModeInputs == {"random", "minor"}

PaletteInputs == {"sawtooth", "Chiptune", "Acid"}

TempoInputs == {120}

ToggleCells == {<<0, 0>>}

\* what the current render closes over
CurrentSnapshot ==
    Closure(activeMode, currentRandomProgression, currentRandomMelody, randomKey, playbackMode,
            soundPalette, isArpeggiatorOn, manualSequence, currentDrumPatternIndex)

\* what the next render closes over
NextSnapshot ==
    Closure(activeMode', currentRandomProgression', currentRandomMelody', randomKey',
            playbackMode', soundPalette', isArpeggiatorOn', manualSequence',
            currentDrumPatternIndex')

----------------------------------------------------------------------------
(* Tone.js as the component uses it                                        *)

\* Tone.Transport.start(): resumes from the position the transport is at
TransportStart(tr) == [tr EXCEPT !.state = "started"]

\* Tone.Transport.pause(): keeps the position
TransportPause(tr) == [tr EXCEPT !.state = "paused"]

\* a variant that restarts the transport from position 0 with the new tempo
TransportSetBpmRestart(tr, newTempo) == [tr EXCEPT !.bpm = newTempo, !.pos = 0]

\* Tone.Transport.bpm.value = newTempo
TransportSetBpm(tr, newTempo) == [tr EXCEPT !.bpm = newTempo]

\* a variant that advances by an eighth note
NextStepEighth(step) == (step + 2) % Steps

\* the 16 steps of the sequence repeat
NextStep(step) == (step + 1) % Steps

\* a variant that leaves the old sequence scheduled
DisposeNothing(reg, ref) == reg

\* sequence.dispose(): the transport forgets the callback of the sequence
Dispose(reg, ref) ==
    IF ref.state = "started"
    THEN LET Other(cb) == cb # ref.cb IN SelectSeq(reg, Other)
    ELSE reg

\* sequence.start(0): the transport calls the callback at every step
Schedule(reg, cb) == Append(reg, cb)

\* the notes left sounding by a run of triggers: triggerAttack holds its note
\* until triggerRelease, triggerAttackRelease releases its own
RECURSIVE Sounding(_, _)
Sounding(notes, events) ==
    IF events = <<>> THEN notes
    ELSE LET e == Head(events)
         IN Sounding(CASE e.op = "attack" -> notes \cup {e.notes[1]}
                       [] e.op = "release" -> notes \ {e.notes[1]}
                       [] OTHER -> notes,
                     Tail(events))

\* a variant of the stop branch that releases nothing
ReleaseNothing(synth, notes) == notes

\* if (synthRef.current instanceof Tone.PolySynth) synthRef.current.releaseAll()
ReleaseAll(synth, notes) == IF synth = "PolySynth" THEN {} ELSE notes

\* the queued voice events one sixteenth later
Due(q) == {e.ev : e \in {x \in q : x.due = 1}}

Later(q) == {[ev |-> e.ev, due |-> e.due - 1] : e \in {x \in q : x.due > 1}}

Queued(events) ==
    {[ev |-> events[i], due |-> events[i].at] : i \in {j \in 1..Len(events) : events[j].at > 0}}

----------------------------------------------------------------------------
(* Music generation                                                        *)

\* a variant that draws the root whatever the root selection is
GenKeyAnyRoot(rootSel, modeSel, r1, r2) ==
    KeyName(ROOT_NOTES[RandIndex(r1, Len(ROOT_NOTES)) + 1],
            IF modeSel = "random" THEN ScaleTypes[RandIndex(r2, Len(ScaleTypes)) + 1] ELSE modeSel)

\* the key generateRandomMusicData selects
GenKey(rootSel, modeSel, r1, r2) ==
    KeyName(IF rootSel = "random" THEN ROOT_NOTES[RandIndex(r1, Len(ROOT_NOTES)) + 1] ELSE rootSel,
            IF modeSel = "random" THEN ScaleTypes[RandIndex(r2, Len(ScaleTypes)) + 1] ELSE modeSel)

RandSeqs == [1..MelodyDraws -> Rand]

\* the runs of draws a loop melody on its own is generated with
DrawSeqs == [1..MelodyDraws -> Draws]

\* the progression of every key, and its loop melody for every run of draws,
\* as tables (@@ <<>> makes TLC compute a table once)
ProgressionTable == [key \in ALL_KEYS |-> ResolveProgression(key)] @@ <<>>

MelodyTable ==
    [key \in ALL_KEYS |->
        [rs \in DrawSeqs |-> LoopMelody(key, ProgressionTable[key], rs)] @@ <<>>] @@ <<>>

\* the melody generateRandomMusicData stores
GenMelody(pm, key, rs) == IF pm = "loop" THEN MelodyTable[key][rs] ELSE <<>>

\* SCALES[newKeyName][0]: SCALES[newKeyName] is undefined for a name that is
\* not a key of the table, and indexing undefined throws a TypeError
KeyLookupThrows(key) == key \notin ALL_KEYS

\* generateRandomMusicData as a function of the selections and the draws: the
\* key it passes to setRandomKey, and the progression and the melody it
\* stores unless the lookup of the key throws first
generateRandomMusicData(rootSel, modeSel, pm, r1, r2, rs) ==
    LET newKeyName == GenKey(rootSel, modeSel, r1, r2)
    IN IF KeyLookupThrows(newKeyName)
       THEN [threw |-> TRUE, key |-> newKeyName, progression |-> <<>>, melody |-> <<>>]
       ELSE [threw |-> FALSE, key |-> newKeyName,
             progression |-> ProgressionTable[newKeyName],
             melody |-> GenMelody(pm, newKeyName, rs)]

\* generateRandomMusicData: the three values are set in one batch
GenerateData(r1, r2, rs) ==
    LET new == generateRandomMusicData(currentRootKey, currentScaleMode, playbackMode, r1, r2, rs)
    IN /\ randomKey' = new.key
       /\ currentRandomProgression' = new.progression
       /\ currentRandomMelody' = new.melody

----------------------------------------------------------------------------
(* Initial state: the component is mounted, its effects have run once      *)

\* no function is being applied on its own
NoCall == [fn |-> "none"]

\* the component after construction, with the selections of the key, the scale
\* and the playback mode as given
MountedWith(rootSel, modeSel, pm) ==
    /\ isPlaying = FALSE
    /\ activeMode = "random"
    /\ soundPalette = "sawtooth"
    /\ tempo = 90
    /\ currentStep = 0
    /\ randomKey = KeyName("C", "major")
    /\ playbackMode = pm
    /\ currentRootKey = rootSel
    /\ currentScaleMode = modeSel
    /\ currentRandomProgression = <<>>
    /\ currentRandomMelody = <<>>
    /\ isArpeggiatorOn = FALSE
    /\ currentDrumPatternIndex = 0
    /\ manualSequence = EmptyGrid
    /\ sequenceRef = [cb |-> CurrentSnapshot, state |-> "stopped"]
    /\ chiptuneMelodyNoteRef = NoNote
    /\ sustained = {}
    /\ transport = [state |-> "paused", bpm |-> 120, pos |-> 0]
    /\ registry = <<>>
    /\ audioContext = "suspended"
    /\ scheduled = {}
    /\ pendingStarts = 0
    /\ regenPending = TRUE
    /\ triggers = <<>>
    /\ fired = {}
    /\ sinceTick = "other"

\* the component after construction: random key, random scale, loop mode
Mounted == MountedWith("random", "random", "loop")

Init == Mounted /\ call = NoCall /\ result = NoCall

----------------------------------------------------------------------------
(* The effects                                                             *)

\* useEffect(setupSequence): the cleanup of the previous run, then setupSequence
SetupSequenceEffect(cb, playing) ==
    /\ sequenceRef' = [cb |-> cb, state |-> IF playing THEN "started" ELSE "stopped"]
    /\ registry' = IF playing THEN Schedule(Dispose(registry, sequenceRef), cb)
                   ELSE Dispose(registry, sequenceRef)
    /\ transport' = IF playing THEN TransportStart(transport) ELSE TransportPause(transport)
    /\ currentStep' = 0

\* a control action leaves no trigger behind
Control(kind) ==
    /\ triggers' = <<>>
    /\ fired' = {}
    /\ sinceTick' = IF kind = "tempo" /\ sinceTick \in {"none", "tempo"} THEN "tempo"
                    ELSE IF kind = "start" THEN "start" ELSE "other"

----------------------------------------------------------------------------
(* The handlers.  A handler of a discrete event, its render and the        *)
(* effects of that render run in one task; the updates an effect queues    *)
(* are rendered in a later task (Commit).                                  *)

\* handlePlayPause while not playing: up to `await Tone.start()`; one call is
\* in flight at a time
PlayClick ==
    /\ ~isPlaying
    /\ pendingStarts = 0
    /\ pendingStarts' = pendingStarts + 1
    /\ Control("play")
    /\ UNCHANGED <<reactState, sequenceRef, chiptuneMelodyNoteRef, sustained, call, result, transport, registry,
                   audioContext, scheduled, regenPending>>

\* Tone.start() resolves: setIsPlaying(true), rendered together with whatever
\* the generation effect has queued
UnlockResolve ==
    /\ pendingStarts > 0
    /\ pendingStarts' = pendingStarts - 1
    /\ audioContext' = "running"
    /\ isPlaying' = TRUE
    /\ IF regenPending
       THEN \E r1 \in Rand, r2 \in Rand, rs \in RandSeqs : GenerateData(r1, r2, rs)
       ELSE UNCHANGED <<randomKey, currentRandomProgression, currentRandomMelody>>
    /\ regenPending' = FALSE
    /\ UNCHANGED <<activeMode, soundPalette, tempo, playbackMode, currentRootKey,
                   currentScaleMode, isArpeggiatorOn, currentDrumPatternIndex, manualSequence>>
    /\ SetupSequenceEffect(NextSnapshot, isPlaying')
    /\ Control("start")
    /\ UNCHANGED <<chiptuneMelodyNoteRef, sustained, call, result, scheduled>>

\* a variant that sets isPlaying whether or not Tone.start() resolved
PlayingRegardless(playing) == TRUE

\* the state handlePlayPause is left in when Tone.start() rejects
PlayingAfterReject(playing) == playing

\* Tone.start() rejects: handlePlayPause ends in its await
UnlockReject ==
    /\ pendingStarts > 0
    /\ audioContext = "suspended"
    /\ pendingStarts' = pendingStarts - 1
    /\ isPlaying' = PlayingAfterReject(isPlaying)
    /\ Control("play")
    /\ UNCHANGED <<activeMode, soundPalette, tempo, currentStep, randomKey, playbackMode,
                   currentRootKey, currentScaleMode, currentRandomProgression,
                   currentRandomMelody, isArpeggiatorOn, currentDrumPatternIndex, manualSequence,
                   sequenceRef, chiptuneMelodyNoteRef, sustained, call, result, transport, registry, audioContext,
                   scheduled, regenPending>>

\* handlePlayPause while playing
StopClick ==
    /\ isPlaying
    /\ isPlaying' = FALSE
    /\ chiptuneMelodyNoteRef' = NoNote
    /\ sustained' = ReleaseAll(SynthKind(soundPalette), sustained)
    /\ UNCHANGED <<call, result>>
    /\ UNCHANGED <<activeMode, soundPalette, tempo, randomKey, playbackMode, currentRootKey,
                   currentScaleMode, currentRandomProgression, currentRandomMelody,
                   isArpeggiatorOn, currentDrumPatternIndex, manualSequence>>
    /\ SetupSequenceEffect(NextSnapshot, isPlaying')
    /\ Control("stop")
    /\ UNCHANGED <<audioContext, scheduled, pendingStarts, regenPending>>

\* the mode selector
SetActiveMode(m) ==
    /\ m # activeMode
    /\ activeMode' = m
    /\ UNCHANGED <<isPlaying, soundPalette, tempo, randomKey, playbackMode, currentRootKey,
                   currentScaleMode, currentRandomProgression, currentRandomMelody,
                   isArpeggiatorOn, currentDrumPatternIndex, manualSequence>>
    /\ SetupSequenceEffect(NextSnapshot, isPlaying')
    /\ Control("mode")
    /\ UNCHANGED <<chiptuneMelodyNoteRef, sustained, call, result, audioContext, scheduled, pendingStarts, regenPending>>

\* handlePaletteChange; the palette effect disposes the old synths
PaletteChange(p) ==
    /\ p # soundPalette
    /\ chiptuneMelodyNoteRef' = NoNote
    /\ sustained' = {}
    /\ UNCHANGED <<call, result>>
    /\ soundPalette' = p
    /\ currentDrumPatternIndex' =
          IF FindPatternIndex(p) # -1 THEN FindPatternIndex(p) ELSE currentDrumPatternIndex
    /\ UNCHANGED <<isPlaying, activeMode, tempo, randomKey, playbackMode, currentRootKey,
                   currentScaleMode, currentRandomProgression, currentRandomMelody,
                   isArpeggiatorOn, manualSequence>>
    /\ SetupSequenceEffect(NextSnapshot, isPlaying')
    /\ scheduled' = {}
    /\ Control("palette")
    /\ UNCHANGED <<audioContext, pendingStarts, regenPending>>

\* handleRandomizeDrums
RandomizeDrums(r) ==
    /\ activeMode = "random"
    /\ currentDrumPatternIndex' = RandIndex(r, Len(drumPatterns))
    /\ UNCHANGED <<isPlaying, activeMode, soundPalette, tempo, randomKey, playbackMode,
                   currentRootKey, currentScaleMode, currentRandomProgression,
                   currentRandomMelody, isArpeggiatorOn, manualSequence>>
    /\ IF currentDrumPatternIndex' # currentDrumPatternIndex
       THEN SetupSequenceEffect(NextSnapshot, isPlaying')
       ELSE UNCHANGED <<sequenceRef, registry, transport, currentStep>>
    /\ Control("drums")
    /\ UNCHANGED <<chiptuneMelodyNoteRef, sustained, call, result, audioContext, scheduled, pendingStarts, regenPending>>

\* a variant of the tempo handler that also clears the manual grid
TempoChangeClearingGrid(newTempo) ==
    /\ tempo' = newTempo
    /\ manualSequence' = EmptyGrid
    /\ transport' = TransportSetBpm(transport, newTempo)
    /\ Control("tempo")
    /\ UNCHANGED <<isPlaying, activeMode, soundPalette, currentStep, randomKey, playbackMode,
                   currentRootKey, currentScaleMode, currentRandomProgression,
                   currentRandomMelody, isArpeggiatorOn, currentDrumPatternIndex,
                   sequenceRef, chiptuneMelodyNoteRef, sustained, call, result, registry, audioContext, scheduled,
                   pendingStarts, regenPending>>

\* handleTempoChange
TempoChange(newTempo) ==
    /\ tempo' = newTempo
    /\ transport' = TransportSetBpm(transport, newTempo)
    /\ Control("tempo")
    /\ UNCHANGED <<isPlaying, activeMode, soundPalette, currentStep, randomKey, playbackMode,
                   currentRootKey, currentScaleMode, currentRandomProgression,
                   currentRandomMelody, isArpeggiatorOn, currentDrumPatternIndex, manualSequence,
                   sequenceRef, chiptuneMelodyNoteRef, sustained, call, result, registry, audioContext, scheduled,
                   pendingStarts, regenPending>>

\* handleManualSequenceToggle, from the grid that manual mode shows
ManualSequenceToggle(noteIndex, stepIndex) ==
    /\ activeMode = "manual"
    /\ manualSequence' = ToggleGrid(manualSequence, noteIndex, stepIndex)
    /\ UNCHANGED <<isPlaying, activeMode, soundPalette, tempo, randomKey, playbackMode,
                   currentRootKey, currentScaleMode, currentRandomProgression,
                   currentRandomMelody, isArpeggiatorOn, currentDrumPatternIndex>>
    /\ SetupSequenceEffect(NextSnapshot, isPlaying')
    /\ Control("grid")
    /\ UNCHANGED <<chiptuneMelodyNoteRef, sustained, call, result, audioContext, scheduled, pendingStarts, regenPending>>

\* the arpeggiator checkbox
SetArpeggiator(on) ==
    /\ activeMode = "random"
    /\ on # isArpeggiatorOn
    /\ isArpeggiatorOn' = on
    /\ UNCHANGED <<isPlaying, activeMode, soundPalette, tempo, randomKey, playbackMode,
                   currentRootKey, currentScaleMode, currentRandomProgression,
                   currentRandomMelody, currentDrumPatternIndex, manualSequence>>
    /\ SetupSequenceEffect(NextSnapshot, isPlaying')
    /\ Control("arp")
    /\ UNCHANGED <<chiptuneMelodyNoteRef, sustained, call, result, audioContext, scheduled, pendingStarts, regenPending>>

\* the playback-mode selector: the render rebuilds the sequence with the new
\* mode and the data of the old one, and its generation effect queues new data
SetPlaybackMode(m) ==
    /\ activeMode = "random"
    /\ m # playbackMode
    /\ playbackMode' = m
    /\ regenPending' = TRUE
    /\ UNCHANGED <<isPlaying, activeMode, soundPalette, tempo, randomKey, currentRootKey,
                   currentScaleMode, currentRandomProgression, currentRandomMelody,
                   isArpeggiatorOn, currentDrumPatternIndex, manualSequence>>
    /\ SetupSequenceEffect(NextSnapshot, isPlaying')
    /\ Control("playback")
    /\ UNCHANGED <<chiptuneMelodyNoteRef, sustained, call, result, audioContext, scheduled, pendingStarts>>

\* the root selector: only the generation effect depends on it
SetRootKey(k) ==
    /\ activeMode = "random"
    /\ k # currentRootKey
    /\ currentRootKey' = k
    /\ regenPending' = TRUE
    /\ Control("root")
    /\ UNCHANGED <<isPlaying, activeMode, soundPalette, tempo, currentStep, randomKey,
                   playbackMode, currentScaleMode, currentRandomProgression,
                   currentRandomMelody, isArpeggiatorOn, currentDrumPatternIndex, manualSequence,
                   sequenceRef, chiptuneMelodyNoteRef, sustained, call, result, transport, registry, audioContext,
                   scheduled, pendingStarts>>

\* the scale selector: only the generation effect depends on it
SetScaleMode(m) ==
    /\ activeMode = "random"
    /\ m # currentScaleMode
    /\ currentScaleMode' = m
    /\ regenPending' = TRUE
    /\ Control("scale")
    /\ UNCHANGED <<isPlaying, activeMode, soundPalette, tempo, currentStep, randomKey,
                   playbackMode, currentRootKey, currentRandomProgression,
                   currentRandomMelody, isArpeggiatorOn, currentDrumPatternIndex, manualSequence,
                   sequenceRef, chiptuneMelodyNoteRef, sustained, call, result, transport, registry, audioContext,
                   scheduled, pendingStarts>>

\* a render of freshly generated data: the sequence is rebuilt from it
Generate(r1, r2, rs) ==
    /\ GenerateData(r1, r2, rs)
    /\ regenPending' = FALSE
    /\ UNCHANGED <<isPlaying, activeMode, soundPalette, tempo, playbackMode, currentRootKey,
                   currentScaleMode, isArpeggiatorOn, currentDrumPatternIndex, manualSequence>>
    /\ SetupSequenceEffect(NextSnapshot, isPlaying')
    /\ Control("generate")
    /\ UNCHANGED <<chiptuneMelodyNoteRef, sustained, call, result, audioContext, scheduled, pendingStarts>>

\* the regenerate button, shown in random mode
Regenerate(r1, r2, rs) ==
    /\ activeMode = "random"
    /\ Generate(r1, r2, rs)

\* React renders what the generation effect queued
Commit(r1, r2, rs) ==
    /\ regenPending
    /\ Generate(r1, r2, rs)

----------------------------------------------------------------------------
(* The clock                                                               *)

\* the callbacks of the transport run one after the other
RECURSIVE RunCallbacks(_, _, _, _, _)
RunCallbacks(reg, synth, step, r, held) ==
    IF reg = <<>> THEN [events |-> <<>>, held |-> held]
    ELSE LET rest == RunCallbacks(Tail(reg), synth, step, r,
                                  CallbackHeld(Head(reg), synth, step, r, held))
         IN [events |-> CallbackEvents(Head(reg), synth, step, r, held) \o rest.events,
             held |-> rest.held]

\* the transport reaches the next sixteenth
Tick(r) ==
    /\ transport.state = "started"
    /\ LET step == transport.pos
           run == RunCallbacks(registry, SynthKind(soundPalette), step, r, chiptuneMelodyNoteRef)
       IN /\ currentStep' = IF registry # <<>> THEN step ELSE currentStep
          /\ triggers' = run.events
          /\ chiptuneMelodyNoteRef' = run.held
          /\ sustained' = Sounding(sustained, run.events)
          /\ scheduled' = Later(scheduled) \cup Queued(run.events)
          /\ fired' = Due(scheduled)
    /\ transport' = [transport EXCEPT !.pos = NextStep(transport.pos)]
    /\ sinceTick' = "none"
    /\ UNCHANGED <<call, result>>
    /\ UNCHANGED <<isPlaying, activeMode, soundPalette, tempo, randomKey, playbackMode,
                   currentRootKey, currentScaleMode, currentRandomProgression,
                   currentRandomMelody, isArpeggiatorOn, currentDrumPatternIndex, manualSequence,
                   sequenceRef, registry, audioContext, pendingStarts, regenPending>>

\* a sixteenth of audio time passes while the transport stands still
Elapse ==
    /\ transport.state # "started"
    /\ audioContext = "running"
    /\ scheduled # {}
    /\ scheduled' = Later(scheduled)
    /\ fired' = Due(scheduled)
    /\ triggers' = <<>>
    /\ UNCHANGED <<reactState, sequenceRef, chiptuneMelodyNoteRef, sustained, call, result, transport, registry,
                   audioContext, pendingStarts, regenPending, sinceTick>>

Next ==
    \/ PlayClick
    \/ UnlockResolve
    \/ UnlockReject
    \/ StopClick
    \/ \E m \in {"random", "manual"} : SetActiveMode(m)
    \/ \E p \in PaletteInputs : PaletteChange(p)
    \/ \E r \in Rand : RandomizeDrums(r)
    \/ \E t \in TempoInputs : TempoChange(t)
    \/ \E cell \in ToggleCells : ManualSequenceToggle(cell[1], cell[2])
    \/ \E on \in BOOLEAN : SetArpeggiator(on)
    \/ \E m \in {"loop", "song"} : SetPlaybackMode(m)
    \/ \E k \in RootInputs : SetRootKey(k)
    \/ \E m \in ModeInputs : SetScaleMode(m)
    \/ \E r1 \in Rand, r2 \in Rand, rs \in RandSeqs : Regenerate(r1, r2, rs)
    \/ \E r1 \in Rand, r2 \in Rand, rs \in RandSeqs : Commit(r1, r2, rs)
    \/ \E r \in Rand : Tick(r)
    \/ Elapse

Spec == Init /\ [][Next]_vars

----------------------------------------------------------------------------
(* The clock callback on its own: a running sequence whose callback closes *)
(* over any combination of values, the empty progression and the empty    *)
(* melody of the first render included, stepped by the clock alone.        *)

TickKeys == {KeyName("C", "major"), KeyName("C", "minor"), KeyName("G", "harmonic_minor")}

TickGrids ==
    {EmptyGrid,
     ToggleGrid(EmptyGrid, 0, 0),
     ToggleGrid(ToggleGrid(ToggleGrid(EmptyGrid, 2, 0), 7, 0), 4, 5)}

InitTick ==
    /\ isPlaying = TRUE
    /\ activeMode \in {"random", "manual"}
    /\ soundPalette \in PaletteInputs
    /\ tempo = 90
    /\ currentStep = 0
    /\ randomKey \in TickKeys
    /\ playbackMode \in {"loop", "song"}
    /\ currentRootKey = "random"
    /\ currentScaleMode = "random"
    /\ currentRandomProgression \in {<<>>, ProgressionTable[randomKey]}
    /\ currentRandomMelody \in {<<>>} \cup {MelodyTable[randomKey][rs] : rs \in DrawSeqs}
    /\ isArpeggiatorOn \in BOOLEAN
    /\ currentDrumPatternIndex \in 0..(Len(drumPatterns) - 1)
    /\ manualSequence \in TickGrids
    /\ sequenceRef = [cb |-> CurrentSnapshot, state |-> "started"]
    /\ chiptuneMelodyNoteRef = NoNote
    /\ sustained = {}
    /\ transport = [state |-> "started", bpm |-> 120, pos |-> 0]
    /\ registry = <<CurrentSnapshot>>
    /\ audioContext = "running"
    /\ scheduled = {}
    /\ pendingStarts = 0
    /\ regenPending = FALSE
    /\ triggers = <<>>
    /\ fired = {}
    /\ sinceTick = "start"
    /\ call = NoCall
    /\ result = NoCall

NextTick == \E r \in Rand : Tick(r)

SpecTick == InitTick /\ [][NextTick]_vars

----------------------------------------------------------------------------
(* The functions of the component applied on their own, to arguments drawn *)
(* from bounded sets                                                       *)

\* every other part of the component stands still
programVars == <<reactState, sequenceRef, chiptuneMelodyNoteRef, sustained, transport, registry,
                 audioContext, scheduled, pendingStarts, regenPending, triggers, fired,
                 sinceTick>>

\* Tone.Time('16n').toSeconds() at a tempo, in milliseconds
SixteenthMs(bpm) == 60000 \div (bpm * 4)

\* a clock step that runs the arpeggiator: the step's time and the time now on
\* the clock of the audio context, and the time that clock ran while the
\* transport stood still (before the start, and between a stop and a start)
ArpChords == {ProgressionTable[KeyName("C", "major")][1],
              ProgressionTable[KeyName("C", "major")][3]}

ArpInputs ==
    {[fn |-> "arp", chord |-> c, time |-> 1000, now |-> 1000 + late, idle |-> idle, bpm |-> bpm] :
        c \in ArpChords, late \in {0, 200, 400}, idle \in {0, 500}, bpm \in {90, 120}}

\* Tone.Transport.seconds: the position of the transport
TransportSeconds(now, idle) == now - idle

ArpCall ==
    /\ call.fn = "arp"
    /\ result = NoCall
    /\ result' = [fn |-> "arp",
                  tones |-> ArpTones(call.chord, call.time,
                                     TransportSeconds(call.now, call.idle),
                                     SixteenthMs(call.bpm))]
    /\ UNCHANGED <<call, programVars>>

\* generateConsistentMelodyNote on its own: the scales of three keys and a
\* scale of one note; the chords of those keys, a chord that has no pitch of
\* C major, and the D# minor triad getChordNotes builds, two of whose pitches
\* the flat-spelled scale of C minor has
NoteScales ==
    {SCALES(KeyName("C", "major")), SCALES(KeyName("C", "minor")),
     SCALES(KeyName("G", "harmonic_minor")), <<"A">>}

NoteChords ==
    {ProgressionTable[key][i] : key \in TickKeys, i \in 1..3}
        \cup {getChordNotes(noteToMidi(Note("F#", 3)), "major"),
              getChordNotes(noteToMidi(Note("D#", 3)), "minor")}

OctaveRanges == {<<4, 5>>, <<3, 3>>, <<2, 4>>}

NoteInputs ==
    {[fn |-> "note", scale |-> sc, chord |-> ch, omin |-> rg[1], omax |-> rg[2], r |-> r] :
        sc \in NoteScales, ch \in NoteChords, rg \in OctaveRanges, r \in Draws}

NoteCall ==
    /\ call.fn = "note"
    /\ result = NoCall
    /\ result' = [fn |-> "note",
                  note |-> generateConsistentMelodyNote(call.scale, call.chord,
                                                        call.omin, call.omax, call.r)]
    /\ UNCHANGED <<call, programVars>>

\* getChordNotes on its own: every root of the octaves 2 to 4, every chord type
ChordRoots == 36..71

ChordTypes == {"major", "minor", "dominant7"}

ChordInputs ==
    {[fn |-> "chord", rootMidi |-> m, type |-> t] : m \in ChordRoots, t \in ChordTypes}

ChordCall ==
    /\ call.fn = "chord"
    /\ result = NoCall
    /\ result' = [fn |-> "chord", notes |-> getChordNotes(call.rootMidi, call.type)]
    /\ UNCHANGED <<call, programVars>>

\* handleManualSequenceToggle on its own, up to twice on the same cell: the
\* grids of the clock steps and a grid with the cell (2, 6); every cell of the
\* grid, and the indexes next to the grid on either side
ToggleGrids == TickGrids \cup {ToggleGrid(EmptyGrid, 2, 6)}

ToggleInputs ==
    {[fn |-> "toggle", grid |-> g, noteIndex |-> n, stepIndex |-> c] :
        g \in ToggleGrids, n \in 0..NumRows, c \in (-1)..Steps}

ToggleCall ==
    /\ call.fn = "toggle"
    /\ \/ /\ result = NoCall
          /\ result' =
                IF ToggleThrows(HeapOf(call.grid), 1, call.noteIndex)
                THEN [fn |-> "toggle", threw |-> TRUE, times |-> 1,
                      heap |-> HeapOf(call.grid), mat |-> 1]
                ELSE LET new == ToggleHeap(HeapOf(call.grid), 1, call.noteIndex, call.stepIndex)
                     IN [fn |-> "toggle", threw |-> FALSE, times |-> 1,
                         heap |-> new.heap, mat |-> new.mat]
       \/ /\ result # NoCall
          /\ ~result.threw
          /\ result.times = 1
          /\ LET new == ToggleHeap(result.heap, result.mat, call.noteIndex, call.stepIndex)
             IN result' = [fn |-> "toggle", threw |-> FALSE, times |-> 2,
                           heap |-> new.heap, mat |-> new.mat]
    /\ UNCHANGED <<call, programVars>>

\* generateRandomMusicData on its own: selections the selectors offer, and a
\* root and a scale mode that they do not offer
GenerateInputs ==
    {[fn |-> "generate", rootSel |-> root, modeSel |-> mode, pm |-> pm, r1 |-> r1, r2 |-> r2] :
        root \in {"random", "C", "G", "F"}, mode \in {"random", "major", "minor", "dorian"},
        pm \in {"loop", "song"}, r1 \in Draws, r2 \in Draws}

GenerateCall ==
    /\ call.fn = "generate"
    /\ result = NoCall
    /\ \E rs \in DrawSeqs :
          result' = [fn |-> "generate",
                     data |-> generateRandomMusicData(call.rootSel, call.modeSel, call.pm,
                                                      call.r1, call.r2, rs)]
    /\ UNCHANGED <<call, programVars>>

CallInputs == ArpInputs \cup NoteInputs \cup ChordInputs \cup ToggleInputs \cup GenerateInputs

\* the options of the key, the scale-mode and the playback-mode selectors
RootKeyOptions == {"random"} \cup {ROOT_NOTES[i] : i \in 1..Len(ROOT_NOTES)}

ScaleModeOptions == {"random", "major", "minor", "harmonic_minor"}

PlaybackModeOptions == {"loop", "song"}

\* either a function is applied on its own, or the first generation runs for
\* any selection of the key, the scale and the playback mode
InitCalc ==
    /\ result = NoCall
    /\ \/ Mounted /\ call \in CallInputs
       \/ /\ call = NoCall
          /\ \E rootSel \in {"random"} \cup {ROOT_NOTES[i] : i \in 1..Len(ROOT_NOTES)},
                modeSel \in {"random"} \cup {ScaleTypes[i] : i \in 1..Len(ScaleTypes)},
                pm \in {"loop", "song"} :
                MountedWith(rootSel, modeSel, pm)

NextCalc ==
    \/ ArpCall
    \/ NoteCall
    \/ ChordCall
    \/ ToggleCall
    \/ GenerateCall
    \/ call = NoCall /\ \E r1 \in Draws, r2 \in Draws, rs \in DrawSeqs : Commit(r1, r2, rs)
    \/ call = NoCall /\ \E k \in RootKeyOptions : SetRootKey(k)
    \/ call = NoCall /\ \E m \in ScaleModeOptions : SetScaleMode(m)
    \/ call = NoCall /\ \E pm \in PlaybackModeOptions : SetPlaybackMode(pm)
    \/ call = NoCall /\ \E r1 \in Draws, r2 \in Draws, rs \in DrawSeqs : Regenerate(r1, r2, rs)

SpecCalc == InitCalc /\ [][NextCalc]_vars

----------------------------------------------------------------------------
(* The drum pattern: every option of the palette selector and every draw   *)
(* of the randomize button, while stopped and while playing                *)

\* the options of the palette selector
PaletteOptions == {soundPalettes[i] : i \in 1..Len(soundPalettes)}

NextDrums ==
    \/ PlayClick
    \/ UnlockResolve
    \/ StopClick
    \/ \E m \in {"random", "manual"} : SetActiveMode(m)
    \/ \E p \in PaletteOptions : PaletteChange(p)
    \/ \E r \in Draws : RandomizeDrums(r)
    \/ \E r1 \in Rand, r2 \in Rand, rs \in RandSeqs : Commit(r1, r2, rs)

SpecDrums == Init /\ [][NextDrums]_vars

----------------------------------------------------------------------------
(* Properties                                                              *)

\* the events of the given voices among those a clock step issued, in order
OfVoices(events, voices) == LET In(e) == e.v \in voices IN SelectSeq(events, In)

DrumVoices == {"kick", "hihat", "snare"}

HarmonyVoices == {"melody", "bass", "chord"}

\* the state a clock step leaves: the step it ran for is currentStep
AfterTick == sinceTick = "none"

\* the rows of the grid that are flagged in the column of a step, top row first
FlaggedRows(grid, step) ==
    LET Flagged(i) == grid[i][step + 1] IN SelectSeq([i \in 1..NumRows |-> i], Flagged)

\* C6, as the code has it: a clock step in manual mode triggers exactly the
\* rows of the manual grid that are flagged in the step's column, top row
\* first, each with the note of its row; a clock step in generated mode
\* triggers no manual-grid note.
ManualGridOnlyInManualMode ==
    AfterTick =>
        LET manual == OfVoices(triggers, {"manual"})
            rows == FlaggedRows(manualSequence, currentStep)
        IN IF activeMode = "manual"
           THEN /\ Len(manual) = Len(rows)
                /\ \A k \in 1..Len(rows) :
                      manual[k].notes = <<notesForManualSequence[rows[k]]>>
           ELSE manual = <<>>

\* C6, as the specification has it: in either mode a clock step triggers
\* every row of the manual grid that is flagged in the step's column.
ManualGridInEitherMode ==
    AfterTick =>
        \A i \in 1..NumRows :
            manualSequence[i][currentStep + 1] =>
                \E k \in 1..Len(triggers) :
                    /\ triggers[k].v = "manual"
                    /\ triggers[k].notes = <<notesForManualSequence[i]>>

\* a clock step in manual mode that triggered two rows of the grid
ManualTickWithTwoRows ==
    /\ AfterTick
    /\ activeMode = "manual"
    /\ Len(OfVoices(triggers, {"manual"})) = 2

\* the place of a voice in the order of the callback
Rank(voice) ==
    CASE voice = "step" -> 0
      [] voice = "melody" -> 1
      [] voice = "bass" -> 2
      [] voice = "chord" -> 3
      [] voice = "manual" -> 4
      [] voice \in DrumVoices -> 5

\* C7: what one clock step issues is in one order on every step: the step
\* index is published first and once, then come the melody, the bass, the
\* chord (block or arpeggio), the manual grid and the drums, in that order.
FixedOrderWithinTick ==
    AfterTick =>
        /\ Len(triggers) >= 1
        /\ triggers[1].v = "step"
        /\ \A i \in 2..Len(triggers) : triggers[i].v # "step"
        /\ \A i, j \in 1..Len(triggers) :
              i < j => Rank(triggers[i].v) <= Rank(triggers[j].v)

\* a clock step that issued a melody, a bass, a chord and a drum trigger
TickWithAllGeneratedVoices ==
    /\ AfterTick
    /\ \A v \in {"melody", "bass", "chord", "kick"} :
          \E k \in 1..Len(triggers) : triggers[k].v = v

StepIndexCycles ==
    /\ [](currentStep \in 0..15)
    /\ [][(sinceTick = "none" /\ sinceTick' = "none")
             => currentStep' = (currentStep + 1) % 16]_vars

\* the clock step for step 15 has run and the transport is back at step 0
LastStepOfTheBarPublished ==
    /\ AfterTick
    /\ currentStep = 15
    /\ transport.pos = 0

TempoChangeKeepsSequence ==
    [][/\ sinceTick' = "tempo" =>
            /\ isPlaying /\ isPlaying'
            /\ transport' = [transport EXCEPT !.bpm = tempo']
            /\ registry' = registry
            /\ sequenceRef' = sequenceRef
            /\ currentStep' = currentStep
       /\ (sinceTick = "tempo" /\ sinceTick' = "none")
            => currentStep' = (currentStep + 1) % 16]_vars

\* the tempo was set to 120 in the middle of a bar while playing
TempoChangedMidBar ==
    /\ isPlaying
    /\ sinceTick = "tempo"
    /\ tempo = 120
    /\ transport.bpm = 120
    /\ currentStep = 5
    /\ transport.pos = 6

\* C4, as the specification has it: while stopped no voice is triggered,
\* neither by a clock step nor by an event that a clock step queued for later.
NoTriggerWhileStopped ==
    ~isPlaying => (triggers = <<>> /\ fired = {})

\* C5, as the specification has it: while stopped the published step index is
\* 0, and the first clock step after a start publishes step 0.
FirstTickAfterStartIsStepZero ==
    /\ [](~isPlaying => currentStep = 0)
    /\ [][(sinceTick = "start" /\ sinceTick' = "none") => currentStep' = 0]_vars

\* C9, as the specification has it: what a clock step has read is consistent:
\* the progression is the progression of the key, and in loop mode the melody
\* is one of the 16-note melodies generated against it.
TickReadsConsistentSnapshot ==
    AfterTick =>
        /\ currentRandomProgression = ResolveProgression(randomKey)
        /\ playbackMode = "loop" =>
              /\ Len(currentRandomMelody) = 16
              /\ \E rs \in RandSeqs :
                    currentRandomMelody = LoopMelody(randomKey, currentRandomProgression, rs)

\* C10: playing implies an unlocked audio context; playback starts only in
\* the step in which an unlock resolves; a failed unlock leaves playback
\* stopped, the transport as it was and triggers nothing; an unlocked context
\* stays unlocked when it is unlocked again.
RunningOnlyAfterUnlock ==
    /\ [](isPlaying => audioContext = "running")
    /\ [][/\ (~isPlaying /\ isPlaying')
               => (pendingStarts' < pendingStarts /\ audioContext' = "running")
          /\ (pendingStarts' < pendingStarts /\ audioContext' = "suspended")
               => (~isPlaying' /\ transport' = transport /\ triggers' = <<>> /\ fired' = {})
          /\ audioContext = "running" => audioContext' = "running"]_vars

\* playback was started a second time, on a context that was already unlocked
StartedAgainOnUnlockedContext ==
    /\ isPlaying
    /\ audioContext = "running"
    /\ sinceTick = "start"
    /\ transport.pos > 0

\* C11: while the player is stopped no note attacked on the melody voice is
\* still held, and the record of the held melody note is empty
StopReleasesHeldNotes ==
    ~isPlaying => (sustained = {} /\ chiptuneMelodyNoteRef = NoNote)

\* stopped on the Chiptune palette while arpeggio tones queued by a tick of
\* this palette's synth are still pending: that tick attacked a melody note
StoppedAfterChiptuneAttack ==
    /\ ~isPlaying
    /\ soundPalette = "Chiptune"
    /\ scheduled # {}
    /\ sustained = {}
    /\ transport.pos > 0

\* the notes of a sequence of triggers, in the order they were issued
RECURSIVE NotesOf(_)
NotesOf(events) ==
    IF events = <<>> THEN <<>> ELSE Head(events).notes \o NotesOf(Tail(events))

\* the chord of the progression in state that is active at the step in state
ActiveChord ==
    currentRandomProgression[((currentStep \div 4) % Len(currentRandomProgression)) + 1]

\* a clock step of generated mode with a non-empty progression
GeneratedTick == AfterTick /\ activeMode = "random" /\ currentRandomProgression # <<>>

\* the bass is triggered exactly on the steps that are multiples of 4, with
\* the name of the chord's root in octave 2
BassOnEveryBeat ==
    LET bass == OfVoices(triggers, {"bass"})
    IN IF currentStep % 4 = 0
       THEN /\ Len(bass) = 1
            /\ bass[1].notes = <<[n |-> ActiveChord[1].n, o |-> 2]>>
       ELSE bass = <<>>

\* C12, as the spec has it: with a non-empty progression the bass is
\* triggered exactly on the steps with step mod 4 = 0, on the chord's root in
\* octave 2, and the harmonic voice is triggered with the full chord exactly
\* on the steps with step mod 8 = 0.
BassOnFourthsFullChordOnEighths ==
    GeneratedTick =>
        /\ BassOnEveryBeat
        /\ NotesOf(OfVoices(triggers, {"chord"}))
             = IF currentStep % 8 = 0 THEN ActiveChord ELSE <<>>

\* C12, as the code has it: the same, but a monophonic harmonic voice is
\* triggered with the root of the chord alone.
BassOnFourthsChordOnEighths ==
    GeneratedTick =>
        /\ BassOnEveryBeat
        /\ NotesOf(OfVoices(triggers, {"chord"}))
             = IF currentStep % 8 = 0
               THEN IF SynthKind(soundPalette) = "PolySynth"
                    THEN ActiveChord ELSE <<ActiveChord[1]>>
               ELSE <<>>

\* step 8 on the monophonic Acid voice: the bass and the chord's root sound
MonophonicChordStep ==
    /\ GeneratedTick
    /\ currentStep = 8
    /\ SynthKind(soundPalette) = "MonoSynth"
    /\ Len(OfVoices(triggers, {"bass"})) = 1
    /\ NotesOf(OfVoices(triggers, {"chord"})) = <<ActiveChord[1]>>

Candidates(scale, chord, omin, omax) ==
    LET all == {[n |-> scale[i], o |-> o] : i \in 1..Len(scale), o \in omin..omax}
        compat == {c \in all : \E j \in 1..Len(chord) : chord[j].n = c.n}
    IN IF compat # {} THEN compat ELSE all

\* the chord of each of the 16 steps for a progression of four chords
ChordOfStep == <<0, 0, 0, 0, 1, 1, 1, 1, 2, 2, 2, 2, 3, 3, 3, 3>>

\* C14: the chord of step s is the chord at index floor(s / 4) mod the length
\* of the progression, steps 0-3 chord 0, 4-7 chord 1, 8-11 chord 2 and 12-15
\* chord 3 of four: note s of a generated loop melody is a candidate for that
\* chord, and a clock step takes its bass root, its chord and its freshly
\* drawn melody note from that chord.
ChordFollowsTheBeat ==
    LET progression == currentRandomProgression
        len == Len(progression)
        chordAt(s) == progression[((s \div 4) % len) + 1]
        scale == SCALES(randomKey)
    IN len > 0 =>
        /\ len = 4
        /\ \A s \in 0..15 : chordAt(s) = progression[ChordOfStep[s + 1] + 1]
        /\ currentRandomMelody # <<>> =>
              \A s \in 0..15 :
                  currentRandomMelody[s + 1] \in Candidates(scale, chordAt(s), 4, 5)
        /\ (AfterTick /\ activeMode = "random") =>
              LET s == currentStep
                  bass == OfVoices(triggers, {"bass"})
                  harmony == OfVoices(triggers, {"chord"})
                  melody == OfVoices(triggers, {"melody"})
              IN /\ \A k \in 1..Len(bass) : bass[k].notes[1].n = chordAt(s)[1].n
                 /\ \A k \in 1..Len(harmony) :
                       \A j \in 1..Len(harmony[k].notes) :
                           \E i \in 1..Len(chordAt(s)) : harmony[k].notes[j] = chordAt(s)[i]
                 /\ playbackMode = "song" =>
                       \A k \in 1..Len(melody) :
                           melody[k].op = "release"
                             \/ melody[k].notes[1] \in Candidates(scale, chordAt(s), 4, 5)

\* a clock step of song mode in the third quarter of the bar, with the bass
\* on the root of the third chord
ThirdChordStep ==
    /\ AfterTick
    /\ activeMode = "random"
    /\ playbackMode = "song"
    /\ currentStep = 8
    /\ Len(currentRandomProgression) = 4
    /\ currentRandomMelody # <<>>
    /\ Len(OfVoices(triggers, {"bass"})) = 1
    /\ OfVoices(triggers, {"bass"})[1].notes[1].n = currentRandomProgression[3][1].n
    /\ currentRandomProgression[3] # currentRandomProgression[1]

\* the pitch classes of the names of a scale, and of the tones of a chord
ScalePitchClasses(scale) == {PitchClass(scale[i]) : i \in 1..Len(scale)}

ChordPitchClasses(chord) == {PitchClass(chord[i].n) : i \in 1..Len(chord)}

\* C15: when the scale and the chord have a pitch class in common, whatever
\* its spelling, generateConsistentMelodyNote returns a note whose pitch class
\* is one of those they have in common.
NoteWithinSharedPitchClasses ==
    result.fn = "note" =>
        LET shared == ScalePitchClasses(call.scale) \cap ChordPitchClasses(call.chord)
        IN shared # {} => PitchClass(result.note.n) \in shared

\* C16: for a non-empty scale, any chord and any octave range with min <= max,
\* generateConsistentMelodyNote returns a note, whose name is a name of the
\* scale and whose octave lies in the range.
NoteAlwaysProducedInScaleAndRange ==
    (result.fn = "note" /\ Len(call.scale) > 0 /\ call.omin <= call.omax) =>
        /\ result.note # NoNote
        /\ \E i \in 1..Len(call.scale) : result.note.n = call.scale[i]
        /\ result.note.o \in call.omin..call.omax

\* a note was produced for a chord that has no pitch of the scale
NoteProducedWithoutSharedTone ==
    /\ result.fn = "note"
    /\ ScalePitchClasses(call.scale) \cap ChordPitchClasses(call.chord) = {}
    /\ call.omin < call.omax
    /\ result.note.o > call.omin
    /\ result.note.n # call.scale[1]

\* C17: once the generation has run in loop mode the melody in state has
\* exactly 16 notes, and note s is one of the candidates of the scale of the
\* key in state, octaves 4 to 5, for the chord at index floor(s / 4) mod the
\* length of the progression in state.
LoopMelodyOfSixteenCandidates ==
    (playbackMode = "loop" /\ ~regenPending) =>
        /\ Len(currentRandomMelody) = 16
        /\ \A s \in 0..15 :
              currentRandomMelody[s + 1]
                  \in Candidates(SCALES(randomKey),
                                 currentRandomProgression[
                                     ((s \div 4) % Len(currentRandomProgression)) + 1],
                                 4, 5)

\* a loop melody generated in G harmonic minor with a draw other than the
\* first: its notes over the third chord differ from those over the first
LoopMelodyGenerated ==
    /\ playbackMode = "loop"
    /\ ~regenPending
    /\ randomKey = KeyName("G", "harmonic_minor")
    /\ Len(currentRandomMelody) = 16
    /\ currentRandomMelody[1] # currentRandomMelody[9]
    /\ currentRandomMelody[1].o = 5

\* the progression of a key, from the key alone: four chords on the degrees
\* I, IV, V7, I with the offsets 0, 5, 7, 0 from the root of the key, each
\* rooted in octave 3 with its tones at the intervals of its type above the root
DegreeOffsets == <<0, 5, 7, 0>>

DegreeIntervals(mode) ==
    IF mode = "major"
    THEN << <<0, 4, 7>>, <<0, 4, 7>>, <<0, 4, 7, 10>>, <<0, 4, 7>> >>
    ELSE << <<0, 3, 7>>, <<0, 3, 7>>, <<0, 4, 7, 10>>, <<0, 3, 7>> >>

IsResolutionOf(progression, key) ==
    /\ Len(progression) = 4
    /\ \A i \in 1..4 :
          LET chord == progression[i]
              intervals == DegreeIntervals(key[2])[i]
              MidiOf(note) == (note.o + 1) * 12 + PitchClass(note.n)
          IN /\ Len(chord) = Len(intervals)
             /\ chord[1].o = 3
             /\ PitchClass(chord[1].n) = (PitchClass(key[1]) + DegreeOffsets[i]) % 12
             /\ \A j \in 1..Len(chord) : MidiOf(chord[j]) = MidiOf(chord[1]) + intervals[j]

\* the progression of C major, tone by tone
ProgressionOfCMajor ==
    << <<Note("C", 3), Note("E", 3), Note("G", 3)>>,
       <<Note("F", 3), Note("A", 3), Note("C", 4)>>,
       <<Note("G", 3), Note("B", 3), Note("D", 4), Note("F", 4)>>,
       <<Note("C", 3), Note("E", 3), Note("G", 3)>> >>

\* C19: the progression in state is empty until the first generation and
\* from then on the resolution of the key in state, which the key alone
\* determines; for C major it is C3 E3 G3, F3 A3 C4, G3 B3 D4 F4, C3 E3 G3.
ProgressionResolvesKey ==
    /\ currentRandomProgression = <<>> => regenPending
    /\ currentRandomProgression # <<>> =>
          /\ IsResolutionOf(currentRandomProgression, randomKey)
          /\ randomKey = KeyName("C", "major") => currentRandomProgression = ProgressionOfCMajor

\* the generation has resolved B minor: the dominant on F# reaches into octave 4
ProgressionOfBMinorResolved ==
    /\ ~regenPending
    /\ randomKey = KeyName("B", "minor")
    /\ Len(currentRandomProgression) = 4
    /\ currentRandomProgression[3][1] = Note("F#", 3)
    /\ currentRandomProgression[3][4] = Note("E", 4)

\* C20: there are 18 keys, the key in state is one of them, and the scale of
\* each has exactly 7 entries, of 7 different pitch classes whatever their
\* spelling, the first of which is the root of the key.
ScalesHaveSevenPitchClasses ==
    /\ Cardinality(ALL_KEYS) = 18
    /\ randomKey \in ALL_KEYS
    /\ \A key \in ALL_KEYS :
          /\ Len(SCALES(key)) = 7
          /\ Cardinality(ScalePitchClasses(SCALES(key))) = 7
          /\ SCALES(key)[1] = key[1]

\* a loop melody was generated from the scale of G minor, which spells its
\* third and sixth entries with flats
FlatSpelledScaleInUse ==
    /\ ~regenPending
    /\ randomKey = KeyName("G", "minor")
    /\ Len(currentRandomMelody) = 16
    /\ "Bb" = SCALES(randomKey)[3]
    /\ \A s \in 1..16 : \E i \in 1..7 : currentRandomMelody[s].n = SCALES(randomKey)[i]

\* the notes the melody voice starts on a clock step
MelodyStarted ==
    LET Starts(e) == e.v = "melody" /\ e.op \in {"attack", "attackRelease"}
    IN NotesOf(SelectSeq(triggers, Starts))

\* C18: in loop mode a clock step leaves the melody in state as it is, and
\* the note it plays at step s is entry s of that melody, in every bar.
LoopMelodyReplayed ==
    /\ [][sinceTick' = "none" => currentRandomMelody' = currentRandomMelody]_vars
    /\ []((/\ AfterTick
           /\ activeMode = "random"
           /\ playbackMode = "loop"
           /\ currentRandomProgression # <<>>
           /\ currentRandomMelody # <<>>)
              => MelodyStarted = <<currentRandomMelody[currentStep + 1]>>)

\* the last step of a bar in loop mode played the last entry of a melody that
\* was generated with a draw other than the first
LastLoopNotePlayed ==
    /\ AfterTick
    /\ activeMode = "random"
    /\ playbackMode = "loop"
    /\ currentStep = 15
    /\ currentRandomProgression # <<>>
    /\ Len(currentRandomMelody) = 16
    /\ currentRandomMelody[16].o = 5
    /\ MelodyStarted = <<currentRandomMelody[16]>>

\* the pitch number of a note: 12 to the octave, C4 is 60
PitchNumber(note) == (note.o + 1) * 12 + PitchClass(note.n)

\* C21: getChordNotes returns, in this order, the notes with the pitch
\* numbers root + 0, 4, 7 for a major chord, root + 0, 3, 7 for a minor chord
\* and root + 0, 4, 7, 10 for a dominant seventh; the first is the root in
\* its own octave and the others lie above it.
ChordTonesAreRootPlusIntervals ==
    result.fn = "chord" =>
        LET intervals == CASE call.type = "major" -> <<0, 4, 7>>
                           [] call.type = "minor" -> <<0, 3, 7>>
                           [] call.type = "dominant7" -> <<0, 4, 7, 10>>
        IN /\ Len(result.notes) = Len(intervals)
           /\ \A j \in 1..Len(intervals) :
                 PitchNumber(result.notes[j]) = call.rootMidi + intervals[j]
           /\ result.notes[1].o = (call.rootMidi \div 12) - 1
           /\ \A j \in 2..Len(intervals) : result.notes[j].o >= result.notes[1].o

\* the dominant seventh on G3: its fifth and its seventh are in octave 4
DominantSeventhAcrossTheOctave ==
    /\ result.fn = "chord"
    /\ call.type = "dominant7"
    /\ call.rootMidi = 55
    /\ result.notes = <<Note("G", 3), Note("B", 3), Note("D", 4), Note("F", 4)>>

\* a toggle of a cell of the grid: row in [0, 8) and column in [0, 16)
ToggleInBounds ==
    /\ call.fn = "toggle"
    /\ call.noteIndex \in 0..(NumRows - 1)
    /\ call.stepIndex \in 0..(Steps - 1)

\* the grid the toggle returned
Toggled == Deref(result.heap, result.mat)

\* C22: a toggle of a cell of the grid negates that cell and leaves the other
\* 127 as they were, so (2, 5) never changes (2, 6) or (3, 5), and a second
\* toggle of the same cell gives the grid that was there before the first.
ToggleNegatesOneCell ==
    (result.fn = "toggle" /\ ToggleInBounds) =>
        /\ ~result.threw
        /\ result.times = 1 =>
              /\ DOMAIN Toggled = 1..NumRows
              /\ \A row \in 1..NumRows :
                    /\ DOMAIN Toggled[row] = 1..Steps
                    /\ \A col \in 1..Steps :
                          Toggled[row][col] =
                              IF row = call.noteIndex + 1 /\ col = call.stepIndex + 1
                              THEN ~call.grid[row][col]
                              ELSE call.grid[row][col]
              /\ Toggled = ToggleGrid(call.grid, call.noteIndex, call.stepIndex)
        /\ result.times = 2 => Toggled = call.grid

\* the cell (2, 5) was toggled twice in a grid that has the cell (2, 6)
ToggledTwiceNextToAFlaggedCell ==
    /\ result.fn = "toggle"
    /\ result.times = 2
    /\ call.noteIndex = 2
    /\ call.stepIndex = 5
    /\ call.grid[3][7]
    /\ Toggled[3][7]
    /\ ~Toggled[3][6]

\* C24: a toggle leaves the matrix and the row it was given as they are: it
\* returns another matrix array, whose affected row is an array that no
\* earlier matrix refers to, so the cells reached from a matrix a callback
\* has captured stay what they were.
ToggleCopiesOnWrite ==
    (result.fn = "toggle" /\ ToggleInBounds) =>
        LET heap == result.heap
            rowAt(m) == heap.mats[m][call.noteIndex + 1]
        IN /\ result.mat = result.times + 1
           /\ Deref(heap, 1) = call.grid
           /\ \A m \in 1..(result.mat - 1) : rowAt(result.mat) # rowAt(m)
           /\ result.times = 2 =>
                 Deref(heap, 2) = ToggleGrid(call.grid, call.noteIndex, call.stepIndex)

\* after two toggles of a cell the first matrix holds the grid as given and
\* the second the grid as toggled once
EarlierMatricesKept ==
    /\ result.fn = "toggle"
    /\ ToggleInBounds
    /\ result.times = 2
    /\ call.grid # EmptyGrid
    /\ Deref(result.heap, 1) = call.grid
    /\ Deref(result.heap, 2) # call.grid
    /\ Deref(result.heap, 3) = call.grid

\* C25: a toggle with a row outside [0, 8) or a column outside [0, 16) has no
\* effect, and the grid a toggle returns has 8 rows of 16 cells.
ToggleOutOfBoundsRejected ==
    result.fn = "toggle" =>
        /\ ~result.threw
        /\ DOMAIN Toggled = 1..NumRows
        /\ \A row \in 1..NumRows : DOMAIN Toggled[row] = 1..Steps
        /\ ~ToggleInBounds => Toggled = call.grid

\* the cells in which two grids differ
CellsChanged(old, new) ==
    {rc \in (1..NumRows) \X (1..Steps) : old[rc[1]][rc[2]] # new[rc[1]][rc[2]]}

\* C23: a step that changes the manual grid is a toggle, of one cell, in
\* manual mode: it changes nothing else of the state of the component, so a
\* step that changes the tempo, the palette, the drum pattern, the root, scale
\* or playback-mode selection, the active mode, the generated data or the
\* playing flag, and a clock step, leave every cell as it was.
OnlyToggleChangesGrid ==
    [][manualSequence' # manualSequence =>
          /\ Cardinality(CellsChanged(manualSequence, manualSequence')) = 1
          /\ activeMode = "manual"
          /\ sinceTick' # "none"
          /\ UNCHANGED <<isPlaying, activeMode, soundPalette, tempo, randomKey, playbackMode,
                         currentRootKey, currentScaleMode, currentRandomProgression,
                         currentRandomMelody, isArpeggiatorOn, currentDrumPatternIndex,
                         transport.bpm>>]_vars

\* a flagged cell is still there after the tempo and the palette were changed
\* and playback went through a bar in generated mode
GridKeptThroughControls ==
    /\ manualSequence = ToggleGrid(EmptyGrid, 0, 0)
    /\ tempo = 120
    /\ soundPalette = "Acid"
    /\ activeMode = "random"
    /\ isPlaying
    /\ currentStep = 3

\* a selection outside the 6 roots and 3 scale modes
UnsupportedSelection ==
    /\ call.fn = "generate"
    /\ \/ call.rootSel \notin {"random"} \cup {ROOT_NOTES[i] : i \in 1..Len(ROOT_NOTES)}
       \/ call.modeSel \notin {"random"} \cup {ScaleTypes[i] : i \in 1..Len(ScaleTypes)}

\* C26: a generation for a selection outside the 6 roots and 3 scale modes is
\* rejected: it does not fail, and it stores no key, progression or melody.
UnsupportedKeyRejected ==
    (result.fn = "generate" /\ UnsupportedSelection) =>
        /\ ~result.data.threw
        /\ result.data.key \in ALL_KEYS

\* the melody notes a clock step attacked without releasing them itself
AttackedNow ==
    {triggers[k].notes[1] : k \in {j \in 1..Len(triggers) :
                                      triggers[j].v = "melody" /\ triggers[j].op = "attack"}}

\* C27: at most one melody note is held, none is held while stopped, and a
\* note that is held after a clock step was attacked by that step: a note
\* attacked by an earlier step has been released, whatever control actions
\* came in between.
HeldNoteReleasedAtNextTick ==
    /\ Cardinality(sustained) <= 1
    /\ ~isPlaying => sustained = {}
    /\ AfterTick => sustained \subseteq AttackedNow

\* C28: in every reachable state, the initial one included, the bpm of the
\* transport clock equals the tempo of the component state.  The transport
\* is created with its own default bpm and only handleTempoChange writes it.
TransportBpmIsTempo ==
    transport.bpm = tempo

PaletteNamedPatterns ==
    {soundPalettes[i] : i \in 1..Len(soundPalettes)} \cap
        {drumPatterns[i].name : i \in 1..Len(drumPatterns)}

\* C30: the drum-pattern index is always a position of the table of 5
\* patterns; Synthwave is the one palette that names a drum pattern, and a
\* selection of a palette sets the index to the pattern of that name when
\* the palette is Synthwave and leaves the index unchanged otherwise.
PaletteSetsDrumsOnlyForSynthwave ==
    /\ currentDrumPatternIndex \in 0..4
    /\ [][/\ Len(drumPatterns) = 5
          /\ PaletteNamedPatterns = {"Synthwave"}
          /\ currentDrumPatternIndex' \in 0..(Len(drumPatterns) - 1)
          /\ soundPalette' # soundPalette =>
                IF soundPalette' = "Synthwave"
                THEN drumPatterns[currentDrumPatternIndex' + 1].name = "Synthwave"
                ELSE currentDrumPatternIndex' = currentDrumPatternIndex]_vars

SynthwavePatternKeptByNextPalette ==
    /\ soundPalette = "Acid"
    /\ drumPatterns[currentDrumPatternIndex + 1].name = "Synthwave"
    /\ isPlaying

====
